---------------------------- MODULE Spec2Model ----------------------------
(***************************************************************************)
(* Model of scanner.js: the loop-based URL analyzer (levenshtein,          *)
(* hasHomoglyphs, looksEncoded, the pattern data, analyzeURL) and the form *)
(* submit handler that drives it through setInterval / setTimeout.         *)
(*                                                                         *)
(* A JavaScript string is a sequence of characters; a character is a       *)
(* one-character TLA+ string, and a character outside ASCII is written by  *)
(* its code point ("U+0430").                                              *)
(***************************************************************************)
EXTENDS Integers, Sequences, FiniteSets, TLC

VARIABLES
    patterns,     \* the module-level pattern lists (scanner.js 38-76)
    inputUrl,     \* argument of the current / last analyzeURL call
    risk,         \* analyzeURL's local `risk` as the last call left it
    findings,     \* analyzeURL's local `findings` as the last call left it
    ret,          \* value returned by the last analyzeURL call (NoResult before)
    seen,         \* one earlier call, remembered: [input, result] or NoCall
    calls,        \* number of analyzeURL calls made so far
    a, b,         \* arguments of a levenshtein call
    dist,         \* its return value (NotComputed before the call)
    urlInput,     \* document.getElementById("urlInput").value
    box,          \* document.getElementById("resultBox").innerHTML
    timers,       \* the event loop's pending timers
    submits,      \* number of submit events handled so far
    closures,     \* per submit: its captured input, dots, interval, result
    meter         \* per submit: the style of the #meterBar element it made

vars == <<patterns, inputUrl, risk, findings, ret, seen, calls,
          a, b, dist, urlInput, box, timers, submits, closures, meter>>

analyzerVars == <<patterns, inputUrl, risk, findings, ret, seen, calls>>
levVars == <<a, b, dist>>
uiVars == <<urlInput, box, timers, submits, closures, meter>>

-----------------------------------------------------------------------------
(* Characters and the String methods the analyzer uses                      *)

LowerLetters ==
    <<"a","b","c","d","e","f","g","h","i","j","k","l","m",
      "n","o","p","q","r","s","t","u","v","w","x","y","z">>

UpperLetters ==
    <<"A","B","C","D","E","F","G","H","I","J","K","L","M",
      "N","O","P","Q","R","S","T","U","V","W","X","Y","Z">>

Range(s) == {s[i] : i \in 1..Len(s)}

Digits == {"0","1","2","3","4","5","6","7","8","9"}

\* Characters String.prototype.trim removes.
WhiteSpace == {" ", "\t", "\n"}

\* The characters of the model in U+0400..U+04FF (Cyrillic) or U+0370..U+03FF (Greek).
CyrillicGreek == {"U+0410", "U+0430", "U+043E", "U+03BF"}

\* The regular expression of hasHomoglyphs: one character in U+0400..U+04FF or U+0370..U+03FF.
hasHomoglyphs(str) == \E i \in 1..Len(str) : str[i] \in CyrillicGreek

IndexIn(seq, c) == CHOOSE i \in 1..Len(seq) : seq[i] = c

\* toLowerCase of one character.  ASCII capitals map to their small letter,
\* U+0410 to U+0430, the Kelvin sign U+212A to "k", and U+0130 to the two
\* code units "i" U+0307; every other character is unchanged.
LowerChar(c) ==
    IF c \in Range(UpperLetters) THEN <<LowerLetters[IndexIn(UpperLetters, c)]>>
    ELSE IF c = "U+0410" THEN <<"U+0430">>
    ELSE IF c = "U+212A" THEN <<"k">>
    ELSE IF c = "U+0130" THEN <<"i", "U+0307">>
    ELSE <<c>>

\* Body applied to the value of e: e is computed once, before Body.
Bind(e, Body(_)) == CHOOSE r \in {Body(v) : v \in {e}} : TRUE

\* s.toLowerCase(): the lower-case forms of the characters of s, in order
\* (of one character, or of the two halves of a longer string).
RECURSIVE toLowerCase(_)
toLowerCase(s) ==
    IF s = <<>> THEN <<>>
    ELSE IF Len(s) = 1 THEN LowerChar(s[1])
    ELSE Bind(SubSeq(s, 1, Len(s) \div 2), LAMBDA front :
         Bind(SubSeq(s, Len(s) \div 2 + 1, Len(s)), LAMBDA back :
             toLowerCase(front) \o toLowerCase(back)))

RECURSIVE TrimStart(_)
TrimStart(s) ==
    IF s # <<>> /\ Head(s) \in WhiteSpace THEN TrimStart(Tail(s)) ELSE s

RECURSIVE TrimEnd(_)
TrimEnd(s) ==
    IF s # <<>> /\ s[Len(s)] \in WhiteSpace
    THEN TrimEnd(SubSeq(s, 1, Len(s) - 1)) ELSE s

trim(s) == TrimEnd(TrimStart(s))

startsWith(s, p) == Len(p) <= Len(s) /\ SubSeq(s, 1, Len(p)) = p

endsWith(s, p) ==
    Len(p) <= Len(s) /\ SubSeq(s, Len(s) - Len(p) + 1, Len(s)) = p

includes(s, p) ==
    \E i \in 0..(Len(s) - Len(p)) : SubSeq(s, i + 1, i + Len(p)) = p

DropFirst(s, n) == SubSeq(s, n + 1, Len(s))

\* Number of characters of s that lie in set cs: (s.match(/c/g) || []).length
CountIn(s, cs) == Cardinality({i \in 1..Len(s) : s[i] \in cs})

\* lower.replace(/^https?:\/\//, "")
StripScheme(s) ==
    IF startsWith(s, <<"h","t","t","p","s",":","/","/">>) THEN DropFirst(s, 8)
    ELSE IF startsWith(s, <<"h","t","t","p",":","/","/">>) THEN DropFirst(s, 7)
    ELSE s

\* .replace(/^www\./, "")
StripWww(s) == IF startsWith(s, <<"w","w","w",".">>) THEN DropFirst(s, 4) ELSE s

\* The positions of s that hold a character of seps.
Positions(s, seps) == {i \in 1..Len(s) : s[i] \in seps}

Least(S) == CHOOSE m \in S : \A n \in S : m <= n

Greatest(S) == CHOOSE m \in S : \A n \in S : m >= n

\* s.split(/[/?#]/)[0]: the part before the first '/', '?' or '#', all of
\* s when it has none.
SplitFirst(s, seps) ==
    IF Positions(s, seps) = {} THEN s
    ELSE SubSeq(s, 1, Least(Positions(s, seps)) - 1)

\* s.split(sep).pop(): the part after the last sep, all of s when it has none.
SplitLast(s, sep) ==
    IF Positions(s, {sep}) = {} THEN s
    ELSE SubSeq(s, Greatest(Positions(s, {sep})) + 1, Len(s))

\* /[0-9]{3,}/.test(s)
HasDigitRun(s) ==
    \E i \in 1..(Len(s) - 2) : \A k \in i..(i + 2) : s[k] \in Digits

\* The template literal's text for a character sequence.
RECURSIVE Str(_)
Str(s) == IF s = <<>> THEN "" ELSE Head(s) \o Str(Tail(s))

-----------------------------------------------------------------------------
(* Utility functions                                                        *)

Min2(m, n) == IF m <= n THEN m ELSE n

Min3(m, n, k) == Min2(m, Min2(n, k))

\* levenshtein with a substitution that costs 2, as if the table had no
\* diagonal step for unequal characters.
RECURSIVE LevRowSubstitutionCosts2(_, _, _, _, _, _)
LevRowSubstitutionCosts2(s, ch, prev, row, lo, hi) ==
    IF lo > hi THEN row
    ELSE IF lo = hi
    THEN Append(row, Min3(prev[lo + 1] + 1,
                          row[lo] + 1,
                          prev[lo] + (IF s[lo] = ch THEN 0 ELSE 2)))
    ELSE Bind((lo + hi) \div 2, LAMBDA mid :
         Bind(LevRowSubstitutionCosts2(s, ch, prev, row, lo, mid), LAMBDA half :
             LevRowSubstitutionCosts2(s, ch, prev, half, mid + 1, hi)))

\* The inner loop: row holds dp[i][0..lo-1]; the cells dp[i][j] for
\* j = lo..hi are added in order, each from the row above (prev = dp[i-1])
\* and the cell to its left (one cell at a time, or the lower half of the
\* range and then the upper half).  Rows are 1-based sequences, so dp[i][j]
\* is element j + 1 of row i.
RECURSIVE LevRow(_, _, _, _, _, _)
LevRow(s, ch, prev, row, lo, hi) ==
    IF lo > hi THEN row
    ELSE IF lo = hi
    THEN Append(row, Min3(prev[lo + 1] + 1,
                          row[lo] + 1,
                          prev[lo] + (IF s[lo] = ch THEN 0 ELSE 1)))
    ELSE Bind((lo + hi) \div 2, LAMBDA mid :
         Bind(LevRow(s, ch, prev, row, lo, mid), LAMBDA half :
             LevRow(s, ch, prev, half, mid + 1, hi)))

\* The outer loop: rows i..b.length, each from the one before; dp[i][0] = i.
RECURSIVE LevRows(_, _, _, _)
LevRows(s, t, prev, i) ==
    IF i > Len(t) THEN prev
    ELSE Bind(LevRow(s, t[i], prev, <<i>>, 1, Len(s)),
              LAMBDA thisRow : LevRows(s, t, thisRow, i + 1))

\* dp[0][j] = j for j = 0..a.length
LevRow0(s) == [j \in 1..(Len(s) + 1) |-> j - 1]

\* levenshtein(a, b): returns dp[b.length][a.length].
levenshtein(s, t) ==
    Bind(LevRow0(s), LAMBDA row0 : LevRows(s, t, row0, 1)[Len(s) + 1])

-----------------------------------------------------------------------------
(* Pattern data                                                             *)

phishingClusters == <<
    <<<<"l","o","g","i","n">>, <<"v","e","r","i","f","y">>>>,
    <<<<"s","e","c","u","r","e">>, <<"u","p","d","a","t","e">>>>,
    <<<<"a","c","c","o","u","n","t">>, <<"v","e","r","i","f","y">>>>,
    <<<<"s","e","c","u","r","i","t","y">>, <<"a","l","e","r","t">>>>,
    <<<<"a","c","t","i","o","n">>, <<"r","e","q","u","i","r","e","d">>>>,
    <<<<"p","a","c","k","a","g","e">>, <<"h","e","l","d">>>>,
    <<<<"d","e","l","i","v","e","r","y">>, <<"c","o","n","f","i","r","m">>>>,
    <<<<"a","c","c","o","u","n","t">>, <<"l","o","c","k","e","d">>>>,
    <<<<"r","e","v","i","e","w">>, <<"a","p","p","e","a","l">>>>,
    <<<<"b","i","l","l","i","n","g">>, <<"p","a","y","m","e","n","t">>>>>>

highRiskBrands == <<
    <<"b","a","n","k","o","f","a","m","e","r","i","c","a">>,
    <<"b","o","a">>,
    <<"c","h","a","s","e">>,
    <<"w","e","l","l","s","f","a","r","g","o">>,
    <<"i","n","s","t","a","g","r","a","m">>,
    <<"f","a","c","e","b","o","o","k">>,
    <<"m","e","t","a">>,
    <<"a","p","p","l","e">>,
    <<"a","p","p","l","e","i","d">>,
    <<"i","c","l","o","u","d">>,
    <<"o","u","t","l","o","o","k">>,
    <<"h","o","t","m","a","i","l">>,
    <<"f","e","d","e","x">>,
    <<"u","p","s">>,
    <<"u","s","p","s">>,
    <<"d","h","l">>>>

autoUnsafeTLDs == <<
    <<".","f","a","k","e">>,
    <<".","i","n","v","a","l","i","d">>,
    <<".","t","e","s","t">>,
    <<".","s","u","p","p","o","r","t">>,
    <<".","s","u","p","p","o","r","t","-","l","o","g","i","n">>,
    <<".","c","o","-","l","o","g","i","n">>,
    <<".","s","e","c","u","r","i","t","y","-","c","h","e","c","k">>,
    <<".","v","e","r","i","f","y","-","u","s","e","r">>,
    <<".","u","s","e","r","-","u","p","d","a","t","e">>>>

phishingWords == <<
    <<"l","o","g","i","n">>,
    <<"v","e","r","i","f","y">>,
    <<"s","e","c","u","r","e">>,
    <<"u","p","d","a","t","e">>,
    <<"a","l","e","r","t">>,
    <<"c","o","n","f","i","r","m">>,
    <<"r","e","q","u","i","r","e","d">>,
    <<"l","o","c","k","e","d">>,
    <<"r","e","s","t","o","r","e">>,
    <<"a","p","p","e","a","l">>,
    <<"p","a","y","m","e","n","t">>,
    <<"b","i","l","l","i","n","g">>,
    <<"r","e","v","i","e","w">>,
    <<"s","u","s","p","e","n","d","e","d">>,
    <<"d","i","s","a","b","l","e","d">>>>

deliveryWords == <<
    <<"p","a","c","k","a","g","e">>,
    <<"d","e","l","i","v","e","r","y">>,
    <<"f","e","d","e","x">>,
    <<"u","s","p","s">>,
    <<"u","p","s">>,
    <<"d","h","l">>,
    <<"h","e","l","d">>,
    <<"a","c","t","i","o","n","-","r","e","q","u","i","r","e","d">>,
    <<"f","e","e">>,
    <<"c","o","n","f","i","r","m","-","d","e","t","a","i","l","s">>>>

numberMaps == <<
    [bad |-> "0", good |-> "o"],
    [bad |-> "1", good |-> "l"],
    [bad |-> "3", good |-> "e"],
    [bad |-> "5", good |-> "s"],
    [bad |-> "7", good |-> "t"]>>

baseBrands == <<
    <<"p","a","y","p","a","l">>,
    <<"g","o","o","g","l","e">>,
    <<"a","m","a","z","o","n">>,
    <<"a","p","p","l","e">>,
    <<"f","a","c","e","b","o","o","k">>,
    <<"n","e","t","f","l","i","x">>,
    <<"c","h","a","s","e">>,
    <<"m","i","c","r","o","s","o","f","t">>>>

\* The module-level lists as one value: what `patterns` holds.
PatternData ==
    [phishingClusters |-> phishingClusters,
     highRiskBrands   |-> highRiskBrands,
     autoUnsafeTLDs   |-> autoUnsafeTLDs,
     phishingWords    |-> phishingWords,
     deliveryWords    |-> deliveryWords,
     numberMaps       |-> numberMaps,
     baseBrands       |-> baseBrands]

-----------------------------------------------------------------------------
(* looksEncoded and the rule predicates                                     *)

Base64Chars == Range(LowerLetters) \cup Range(UpperLetters) \cup Digits \cup {"+", "/"}

HexChars == Digits \cup {"a","b","c","d","e","f","A","B","C","D","E","F"}

AllIn(s, cs) == \A i \in 1..Len(s) : s[i] \in cs

\* /^[A-Za-z0-9+/]{12,}={0,2}$/.test(str): a prefix of at least 12 base64
\* characters followed by at most two '=' up to the end of the string.
MatchesBase64(str) ==
    \E k \in 12..Len(str) :
        /\ AllIn(SubSeq(str, 1, k), Base64Chars)
        /\ Len(str) - k <= 2
        /\ AllIn(SubSeq(str, k + 1, Len(str)), {"="})

\* /^[0-9A-F]{16,}$/i.test(str)
MatchesHex(str) == Len(str) >= 16 /\ AllIn(str, HexChars)

looksEncoded(str) == MatchesBase64(str) \/ MatchesHex(str)

\* check: () => host.includes(tld)
TldCheck(host, tld) == includes(host, tld)

\* check: () => (host.match(/-/g) || []).length >= 4
HyphenCheck(host) == CountIn(host, {"-"}) >= 4

\* check: () => host.includes(brand)
BrandCheck(host, brand) == includes(host, brand)

\* check: () => cluster.filter(w => lower.includes(w)).length >= 2
ClusterCheck(lower, cluster) ==
    Len(SelectSeq(cluster, LAMBDA elem : includes(lower, elem))) >= 2

\* check: () => host.includes(word)
WordCheck(host, word) == includes(host, word)

\* check: () => /[0-9]{3,}/.test(host)
NumericCheck(host) == HasDigitRun(host)

\* check: () => lower.includes(word)
DeliveryCheck(lower, word) == includes(lower, word)

\* check: () => looksEncoded(lower.split("=").pop())
EncodedCheck(lower) == Bind(SplitLast(lower, "="), LAMBDA last : looksEncoded(last))

\* check: () => hasHomoglyphs(url)
HomoglyphCheck(url) == hasHomoglyphs(url)

\* check: () => host.includes(m.bad)
DigitCheck(host, m) == includes(host, <<m.bad>>)

DotCom == <<".","c","o","m">>

\* The similarity check with endsWith(b) in place of endsWith(`${b}.com`).
SimilarityCheckEndsWithBrand(host, brand) ==
    levenshtein(host, brand) <= 2 /\ ~endsWith(host, brand)

\* check: () => { const dist = levenshtein(host, b);
\*                return dist <= 2 && !host.endsWith(`${b}.com`); }
SimilarityCheck(host, brand) ==
    levenshtein(host, brand) <= 2 /\ ~endsWith(host, brand \o DotCom)

\* The Long URL check with >= in place of >.
LongUrlCheckInclusive(url) == Len(url) >= 80

\* check: () => url.length > 80
LongUrlCheck(url) == Len(url) > 80

\* check: () => (host.match(/\./g) || []).length > 3
SubdomainCheck(host) == CountIn(host, {"."}) > 3

-----------------------------------------------------------------------------
(* Main analyzer                                                            *)

\* list.map(f): one rule per element of a pattern list, in list order.
MapRules(list, Rule(_)) == [i \in 1..Len(list) |-> Rule(list[i])]

TldRule(host, tld) ==
    [cat |-> "tld", check |-> TldCheck(host, tld), score |-> 90,
     msg |-> "Domain uses high-risk TLD '" \o Str(tld) \o "'."]

HyphenRule(host) ==
    [cat |-> "hyphen", check |-> HyphenCheck(host), score |-> 40,
     msg |-> "Excessive hyphens indicate synthetic phishing."]

BrandRule(host, brand) ==
    [cat |-> "brand", check |-> BrandCheck(host, brand), score |-> 50,
     msg |-> "Brand impersonation detected: '" \o Str(brand) \o "'."]

ClusterRule(lower, cluster) ==
    [cat |-> "cluster", check |-> ClusterCheck(lower, cluster), score |-> 50,
     msg |-> "Phishing keyword cluster detected: "
             \o Str(cluster[1]) \o " + " \o Str(cluster[2])]

WordRule(host, word) ==
    [cat |-> "keyword", check |-> WordCheck(host, word), score |-> 25,
     msg |-> "Suspicious keyword detected: '" \o Str(word) \o "'."]

NumericRule(host) ==
    [cat |-> "numeric", check |-> NumericCheck(host), score |-> 25,
     msg |-> "Suspicious numeric token detected."]

DeliveryRule(lower, word) ==
    [cat |-> "delivery", check |-> DeliveryCheck(lower, word), score |-> 40,
     msg |-> "Delivery scam pattern: '" \o Str(word) \o "'."]

EncodedRule(lower) ==
    [cat |-> "encoded", check |-> EncodedCheck(lower), score |-> 40,
     msg |-> "Encoded redirect detected."]

HomoglyphRule(url) ==
    [cat |-> "homoglyph", check |-> HomoglyphCheck(url), score |-> 40,
     msg |-> "Foreign homoglyph characters detected."]

DigitRule(host, m) ==
    [cat |-> "digit", check |-> DigitCheck(host, m), score |-> 45,
     msg |-> "Typosquatting substitution: '" \o m.bad \o "' for '"
             \o m.good \o "'."]

\* (The source's message has an em dash where this text has " - ".)
SimilarityRule(host, brand) ==
    [cat |-> "similarity", check |-> SimilarityCheck(host, brand), score |-> 50,
     msg |-> "Domain resembles '" \o Str(brand) \o "' - highly suspicious."]

LongUrlRule(url) ==
    [cat |-> "long", check |-> LongUrlCheck(url), score |-> 20,
     msg |-> "URL is unusually long."]

SubdomainRule(host) ==
    [cat |-> "subdomains", check |-> SubdomainCheck(host), score |-> 25,
     msg |-> "Excessive subdomains - common in phishing."]

\* const rules = [ ... ]: the catalogue of one call, in declaration order,
\* built from the pattern lists P as they are when the call is made.
Rules(url, lower, host, P) ==
    MapRules(P.autoUnsafeTLDs, LAMBDA elem : TldRule(host, elem))
    \o <<HyphenRule(host)>>
    \o MapRules(P.highRiskBrands, LAMBDA elem : BrandRule(host, elem))
    \o MapRules(P.phishingClusters, LAMBDA elem : ClusterRule(lower, elem))
    \o MapRules(P.phishingWords, LAMBDA elem : WordRule(host, elem))
    \o <<NumericRule(host)>>
    \o MapRules(P.deliveryWords, LAMBDA elem : DeliveryRule(lower, elem))
    \o <<EncodedRule(lower)>>
    \o <<HomoglyphRule(url)>>
    \o MapRules(P.numberMaps, LAMBDA elem : DigitRule(host, elem))
    \o MapRules(P.baseBrands, LAMBDA elem : SimilarityRule(host, elem))
    \o <<LongUrlRule(url)>>
    \o <<SubdomainRule(host)>>

\* The forEach callback with unshift in place of push.
ApplyRuleUnshift(rule, acc) ==
    IF rule.check
    THEN [risk |-> acc.risk + rule.score, findings |-> <<rule.msg>> \o acc.findings]
    ELSE acc

\* The body of the forEach callback: a rule whose check is true adds its
\* score to risk and pushes its message onto findings.
ApplyRule(rule, acc) ==
    IF rule.check
    THEN [risk |-> acc.risk + rule.score, findings |-> Append(acc.findings, rule.msg)]
    ELSE acc

\* rules.forEach(...): the rules lo..hi visited in order (one rule, or the
\* lower half of the range and then the upper half).
RECURSIVE ExecuteRules(_, _, _, _)
ExecuteRules(rules, lo, hi, acc) ==
    IF lo > hi THEN acc
    ELSE IF lo = hi THEN ApplyRule(rules[lo], acc)
    ELSE Bind((lo + hi) \div 2, LAMBDA mid :
         Bind(ExecuteRules(rules, lo, mid, acc), LAMBDA half :
             ExecuteRules(rules, mid + 1, hi, half)))

\* risk kept from the last call, as a module-level variable would be.
StartRiskKept(prev) == prev

\* let risk = 0;  (prev is what the last call left in the variable)
StartRisk(prev) == 0

\* let findings = [];
StartFindings(prev) == <<>>

\* The score without its ceiling.
ScoreUnclamped(r) == r

\* const score = Math.min(100, risk);
Score(r) == Min2(100, r)

Max2(m, n) == IF m >= n THEN m ELSE n

\* const safePercent = Math.max(0, 100 - score);
SafePercent(score) == Max2(0, 100 - score)

\* The verdict with <= in place of < in both tests.
VerdictInclusive(safePercent) ==
    LET v0 == "SAFE"
        v1 == IF safePercent <= 80 THEN "SUSPICIOUS" ELSE v0
        v2 == IF safePercent <= 50 THEN "UNSAFE" ELSE v1
    IN  v2

\* let verdict = "SAFE"; if (safePercent < 80) ...; if (safePercent < 50) ...
Verdict(safePercent) ==
    LET v0 == "SAFE"
        v1 == IF safePercent < 80 THEN "SUSPICIOUS" ELSE v0
        v2 == IF safePercent < 50 THEN "UNSAFE" ELSE v1
    IN  v2

\* let url = inputUrl.trim();
Url(input) == trim(input)

\* let lower = url.toLowerCase();
LowerOf(url) == toLowerCase(url)

\* let clean = lower.replace(/^https?:\/\//, "").replace(/^www\./, "");
CleanOf(lower) == StripWww(StripScheme(lower))

\* let host = clean.split(/[/?#]/)[0];
HostOf(clean) == SplitFirst(clean, {"/", "?", "#"})

\* The locals lower and host of a call on input.
Lower(input) == LowerOf(Url(input))
Host(input) == HostOf(CleanOf(Lower(input)))

\* One call of analyzeURL, statement by statement: its locals when it
\* returns.  P is the pattern data at the call, prevRisk and prevFindings
\* what the variables held.
Analysis(input, P, prevRisk, prevFindings) ==
    Bind(Url(input), LAMBDA url :
    Bind(LowerOf(url), LAMBDA lower :
    Bind(HostOf(CleanOf(lower)), LAMBDA host :
    Bind(Rules(url, lower, host, P), LAMBDA rules :
    Bind(ExecuteRules(rules, 1, Len(rules),
                      [risk |-> StartRisk(prevRisk),
                       findings |-> StartFindings(prevFindings)]), LAMBDA acc :
    Bind(Score(acc.risk), LAMBDA score :
    Bind(SafePercent(score), LAMBDA safePercent :
        [risk |-> acc.risk, findings |-> acc.findings, score |-> score,
         safePercent |-> safePercent, verdict |-> Verdict(safePercent)])))))))

\* return { score, safePercent, verdict, findings };
Returned(an) ==
    [score |-> an.score, safePercent |-> an.safePercent,
     verdict |-> an.verdict, findings |-> an.findings]

\* analyzeURL(inputUrl) with the module's pattern data and fresh locals.
analyzeURL(input) == Returned(Analysis(input, PatternData, 0, <<>>))

-----------------------------------------------------------------------------
(* Inputs of the analyzer                                                   *)

\* The inputs the specification's scenarios name, and the empty string.
Scenarios == {
    <<"h","t","t","p",":","/","/","w","w","w",".","p","a","y","p","a","1","-","l","o","g","i","n","-","s","e","c","u","r","e","-","v","e","r","i","f","y",".","c","o","m">>,
    <<"h","t","t","p","s",":","/","/","w","w","w",".","g","o","o","g","l","e",".","c","o","m">>,
    <<"h","t","t","p",":","/","/","g","o","0","g","l","e",".","c","o","m">>,
    <<>>}

\* What an input may put before its host.
Prefixes == {
    <<>>,
    <<"h","t","t","p",":","/","/">>,
    <<"h","t","t","p","s",":","/","/","w","w","w",".">>,
    <<"H","T","T","P",":","/","/","W","W","W",".">>,
    <<" ","\t">>}

\* Host parts: plain, typosquatted, brand, keyword, TLD, digit, homoglyph.
Hosts == {
    <<"g","o","o","g","l","e",".","c","o","m">>,
    <<"g","o","0","g","l","e",".","c","o","m">>,
    <<"g","o","0","g","l","e">>,
    <<"g","o","g","l","e">>,
    <<"c","h","a","s","e",".","c","o","m">>,
    <<"a","p","p","l","e",".","c","o","m">>,
    <<"e","x","a","m","p","l","e",".","o","r","g">>,
    <<"E","x","a","m","p","l","e",".","O","R","G">>,
    <<"a",".","b",".","c",".","d",".","e">>,
    <<"a","-","b","-","c","-","d","-","e",".","i","o">>,
    <<"s","h","o","p",".","f","a","k","e">>,
    <<"a","b","c","1","2","3",".","n","e","t">>,
    <<"f","e","d","e","x","-","p","a","c","k","a","g","e",".","c","o">>,
    <<"a","m","a","z","0","n",".","c","0","m">>,
    <<"s","e","c","u","r","e","-","u","p","d","a","t","e","7",".","t","e","s","t">>,
    <<"g","U+043E","U+043E","g","l","e",".","c","o","m">>,
    <<"U+0130","s","t","a","n","b","u","l",".","c","o","m">>,
    <<"U+212A","e","l","v","i","n",".","o","r","g">>,
    <<"m","y",".","s","i","t","e",".","s","u","p","p","o","r","t","-","l","o","g","i","n">>,
    <<"x","=","y">>}

\* What an input may put after its host.
Tails == {
    <<>>,
    <<"/">>,
    <<"/","l","o","g","i","n","/","v","e","r","i","f","y","?","x","=","1","#","t","o","p">>,
    <<"?","u","=","a","G","V","s","b","G","8","g","d","2","9","y","b","G","Q","h">>,
    <<"?","i","d","=","0","1","2","3","4","5","6","7","8","9","a","b","c","d","e","f","&","t","=">>,
    <<"/","r","?","n","e","x","t","=","Q","U","J","D","R","E","V","G","R","0","h","J","S","k","t","M","=","=">>,
    <<"#","h","e","l","d","-","p","a","c","k","a","g","e"," ","\n">>}

\* Names one or two edits away from a base brand, the brand itself, and
\* hosts that end in <brand>.com.
BrandVariants ==
    UNION {{brand,
            SubSeq(brand, 1, Len(brand) - 1),
            brand \o <<"s">>,
            <<"x">> \o brand \o <<"x">>,
            <<"x","y">> \o brand \o <<"z">>,
            brand \o DotCom,
            <<"m","y">> \o brand \o DotCom,
            SubSeq(brand, 1, Len(brand) - 1) \o <<"x">> \o DotCom} :
           brand \in Range(baseBrands)}

\* s followed by as many copies of ch as bring it to length n.
PadTo(s, ch, n) == s \o [i \in 1..(n - Len(s)) |-> ch]

LongBases == {
    <<>>,
    <<"h","t","t","p",":","/","/","e","x","a","m","p","l","e",".","o","r","g","/">>,
    <<"E","x","a","m","p","l","e",".","o","r","g","/","?","q","=">>}

\* Lengths on both sides of the Long URL rule's threshold, and the
\* scenario's 85.
PadLens == {79, 80, 81, 85}

\* Inputs around the Long URL threshold, with and without surrounding
\* white space.
LongInputs ==
    {pre \o PadTo(base, ch, n) \o post :
        pre \in {<<>>, <<" ">>}, post \in {<<>>, <<" ", "\t">>},
        base \in LongBases, ch \in {"x", "F", "."}, n \in PadLens}

\* Largest length of the strings enumerated over FreeChars.
MaxFreeLen == 2

FreeChars == {"a", "0", "-", ".", "=", " ", "/"}

FreeStrings == UNION {[1..n -> FreeChars] : n \in 0..MaxFreeLen}

Inputs ==
    Scenarios
    \cup {pre \o host \o tail : pre \in Prefixes, host \in Hosts, tail \in Tails}
    \cup BrandVariants
    \cup LongInputs
    \cup FreeStrings

-----------------------------------------------------------------------------
(* State machines                                                           *)

\* `ret` before a call has returned.
NoResult == [score |-> -1, safePercent |-> -1, verdict |-> "", findings |-> <<>>]

\* `seen` before a call has been remembered.
NoCall == [input |-> <<>>, result |-> NoResult]

\* `dist` before levenshtein has returned.
NotComputed == -1

AnalyzerIdle ==
    /\ patterns = PatternData
    /\ inputUrl = <<>>
    /\ risk = 0
    /\ findings = <<>>
    /\ ret = NoResult
    /\ seen = NoCall
    /\ calls = 0

LevIdle == a = <<>> /\ b = <<>> /\ dist = NotComputed

\* The values the user types into #urlInput.
UiInputs == {
    <<"c","h","a","s","e",".","c","o","m">>,
    <<"g","o","0","g","l","e">>}

\* #resultBox before the first submit.
EmptyBox == [kind |-> "empty", text |-> "", result |-> NoResult, bar |-> 0]

\* The page after DOMContentLoaded: an empty result box, no timer.
UiIdle ==
    /\ urlInput = <<>>
    /\ box = EmptyBox
    /\ timers = {}
    /\ submits = 0
    /\ closures = <<>>
    /\ meter = <<>>

\* analyzeURL(input) is called and returns.  The call reads the pattern
\* lists and leaves them alone; risk and findings are its locals.
Analyze(input) ==
    \E an \in {Analysis(input, patterns, risk, findings)} :
        /\ inputUrl' = input
        /\ risk' = an.risk
        /\ findings' = an.findings
        /\ ret' = Returned(an)
        /\ calls' = calls + 1
        /\ UNCHANGED patterns

\* One call, on an input drawn at the start.
Init ==
    /\ patterns = PatternData
    /\ inputUrl \in Inputs
    /\ risk = 0
    /\ findings = <<>>
    /\ ret = NoResult
    /\ seen = NoCall
    /\ calls = 0
    /\ LevIdle /\ UiIdle

AnalyzeOnce ==
    /\ calls = 0
    /\ Analyze(inputUrl)
    /\ UNCHANGED <<seen, levVars, uiVars>>

Next == AnalyzeOnce

Spec == Init /\ [][Next]_vars

\* A sequence of calls, with one earlier call remembered.
CallInputs == {
    <<>>,
    <<"h","t","t","p",":","/","/","g","o","0","g","l","e",".","c","o","m">>,
    <<"g","o","o","g","l","e",".","c","o","m">>,
    <<"G","o","0","g","l","e"," ">>,
    <<"c","h","a","s","e",".","c","o","m">>,
    <<"p","a","y","p","a","1","-","l","o","g","i","n",".","t","e","s","t">>,
    <<"a",".","b",".","c",".","d",".","e","/","?","u","=","0","1","2","3","4","5","6","7","8","9","a","b","c","d","e","f">>,
    <<"u","p","s","-","d","e","l","i","v","e","r","y","-","h","e","l","d","-","1","2","3","-","f","e","e">>}

\* Largest number of calls in a sequence.
MaxCalls == 3

CallsInit == AnalyzerIdle /\ LevIdle /\ UiIdle

\* A further call.  `seen` keeps what it held or takes the call before this
\* one, so that it can hold any earlier call.
Call ==
    /\ calls < MaxCalls
    /\ \E input \in CallInputs : Analyze(input)
    /\ seen' \in {seen} \cup (IF calls > 0
                              THEN {[input |-> inputUrl, result |-> ret]}
                              ELSE {})
    /\ UNCHANGED <<levVars, uiVars>>

CallsNext == Call

CallsSpec == CallsInit /\ [][CallsNext]_vars

\* levenshtein on a pair of strings drawn at the start.
LevChars == {"a", "b"}

\* Largest length of the strings levenshtein is called on.
MaxLen == 4

LevStrings == UNION {[1..n -> LevChars] : n \in 0..MaxLen}

LevInit ==
    /\ a \in LevStrings
    /\ b \in LevStrings
    /\ dist = NotComputed
    /\ AnalyzerIdle /\ UiIdle

CallLevenshtein ==
    /\ dist = NotComputed
    /\ dist' = levenshtein(a, b)
    /\ UNCHANGED <<a, b, analyzerVars, uiVars>>

LevNext == CallLevenshtein

LevSpec == LevInit /\ [][LevNext]_vars

-----------------------------------------------------------------------------
(* Scan handler                                                             *)

\* Time is counted in steps of 50 ms.
StepMs == 50

\* setInterval(..., 200), setTimeout(..., 900), setTimeout(..., 50)
IntervalDelay == 200 \div StepMs
ScanDelay == 900 \div StepMs
MeterDelay == 50 \div StepMs

\* Largest number of submit events.
MaxSubmits == 2

\* A pending timer: its handle, what it runs, the submit whose closure it
\* runs in, its delay and the time left until it is due.
Timer(id, kind, owner, delay) ==
    [id |-> id, kind |-> kind, owner |-> owner, delay |-> delay, remaining |-> delay]

\* Handles: three per submit, in the order the submit's closure makes them.
IntervalId(k) == 3 * k - 2
ScanId(k) == 3 * k - 1
MeterId(k) == 3 * k

\* The event loop runs a due timer once no timer of the same delay that was
\* set earlier is still due.  Timers of one delay are set in submit order.
MayRun(t) ==
    /\ t \in timers
    /\ t.remaining = 0
    /\ \A u \in timers :
          (u.delay = t.delay /\ u.remaining = 0) => u.owner >= t.owner

\* `<p>Scanning${'.'.repeat(dots)}</p>`
RECURSIVE Repeat(_, _)
Repeat(str, n) == IF n = 0 THEN "" ELSE str \o Repeat(str, n - 1)

ScanningBox(text) == [kind |-> "scanning", text |-> text, result |-> NoResult, bar |-> 0]

\* The result markup: verdict with its emoji, safety score, reasons, and a
\* new #meterBar element (that of submit k).
Emoji(verdict) ==
    IF verdict = "SAFE" THEN "check"
    ELSE IF verdict = "SUSPICIOUS" THEN "warning" ELSE "cross"

ResultBox(result, k) ==
    [kind |-> "result", text |-> Emoji(result.verdict), result |-> result, bar |-> k]

\* A #meterBar element as the markup creates it, and before it exists.
NewBar == [width |-> 0, background |-> "red"]
NoBar == [width |-> -1, background |-> ""]

\* The user types another value into #urlInput.
EditInput ==
    /\ \E v \in UiInputs : v # urlInput /\ urlInput' = v
    /\ UNCHANGED <<box, timers, submits, closures, meter, analyzerVars, levVars>>

\* The submit listener: captures the input value, shows "Scanning URL",
\* starts the animation interval and the 900 ms timeout.
Submit ==
    /\ submits < MaxSubmits
    /\ \E k \in {submits + 1} :
        /\ submits' = k
        /\ closures' = Append(closures,
                          [input |-> urlInput, dots |-> 0,
                           interval |-> IntervalId(k), result |-> NoResult])
        /\ meter' = Append(meter, NoBar)
        /\ box' = ScanningBox("Scanning URL")
        /\ timers' = timers \cup {Timer(IntervalId(k), "interval", k, IntervalDelay),
                                  Timer(ScanId(k), "scan", k, ScanDelay)}
    /\ UNCHANGED <<urlInput, analyzerVars, levVars>>

\* The interval callback of submit k: one more dot, then due again in 200 ms.
IntervalTick(k) ==
    \E t \in timers :
        /\ t.kind = "interval" /\ t.owner = k /\ MayRun(t)
        /\ \E dots \in {(closures[k].dots + 1) % 4} :
            /\ closures' = [closures EXCEPT ![k].dots = dots]
            /\ box' = ScanningBox("Scanning" \o Repeat(".", dots))
        /\ timers' = (timers \ {t}) \cup {[t EXCEPT !.remaining = t.delay]}
        /\ UNCHANGED <<urlInput, submits, meter, analyzerVars, levVars>>

\* The handle read from a variable that every submit overwrites, as if
\* `interval` were declared outside the submit listener.
IntervalOfLatest(cl, k) == cl[Len(cl)].interval

\* The handle the timeout callback of submit k passes to clearInterval:
\* the const `interval` of its own closure.
IntervalOf(cl, k) == cl[k].interval

\* The timeout callback of submit k: clears the interval, analyses the
\* captured input, shows the result and sets the 50 ms meter timeout.
Finish(k) ==
    \E t \in timers :
        /\ t.kind = "scan" /\ t.owner = k /\ MayRun(t)
        /\ timers' = {u \in timers \ {t} : u.id # IntervalOf(closures, k)}
                        \cup {Timer(MeterId(k), "meter", k, MeterDelay)}
        /\ UNCHANGED <<urlInput, submits, seen, levVars>>
        /\ Analyze(closures[k].input)
        /\ closures' = [closures EXCEPT ![k].result = ret']
        /\ box' = ResultBox(ret', k)
        /\ meter' = [meter EXCEPT ![k] = NewBar]

\* bar.style.background for a safePercent.
BarColour(safePercent) ==
    IF safePercent >= 80 THEN "#2ecc71"
    ELSE IF safePercent >= 50 THEN "#f1c40f" ELSE "#e74c3c"

\* The inner timeout callback of submit k: styles the bar it captured.
MeterFire(k) ==
    \E t \in timers :
        /\ t.kind = "meter" /\ t.owner = k /\ MayRun(t)
        /\ meter' = [meter EXCEPT ![k] =
                        [width |-> closures[k].result.safePercent,
                         background |-> BarColour(closures[k].result.safePercent)]]
        /\ timers' = timers \ {t}
        /\ UNCHANGED <<urlInput, box, submits, closures, analyzerVars, levVars>>

\* 50 ms pass while no timer is due.
Tick ==
    /\ timers # {}
    /\ \A t \in timers : t.remaining > 0
    /\ timers' = {[t EXCEPT !.remaining = t.remaining - 1] : t \in timers}
    /\ UNCHANGED <<urlInput, box, submits, closures, meter, analyzerVars, levVars>>

RunTimer == \E k \in 1..MaxSubmits : IntervalTick(k) \/ Finish(k) \/ MeterFire(k)

UiInit == AnalyzerIdle /\ LevIdle /\ UiIdle

UiNext ==
    \/ EditInput
    \/ Submit
    \/ \E k \in 1..MaxSubmits : IntervalTick(k)
    \/ \E k \in 1..MaxSubmits : Finish(k)
    \/ \E k \in 1..MaxSubmits : MeterFire(k)
    \/ Tick

\* The event loop runs every due timer, and time passes.
UiSpec == UiInit /\ [][UiNext]_vars /\ WF_vars(RunTimer) /\ WF_vars(Tick)

-----------------------------------------------------------------------------
(* Properties of one analyzeURL call                                        *)

Returned1 == calls > 0

Fired(msg) == \E k \in 1..Len(findings) : findings[k] = msg

\* Number of elements of a pattern list that satisfy Test.
CountOf(list, Test(_)) == Cardinality({i \in 1..Len(list) : Test(list[i])})

Bit(p) == IF p THEN 1 ELSE 0

\* The sum of the weights of the rules whose predicate is true for an
\* input, category by category.
WeightSum(input) ==
    LET url == Url(input)
        lower == Lower(input)
        host == Host(input)
    IN    90 * CountOf(autoUnsafeTLDs, LAMBDA elem : TldCheck(host, elem))
        + 40 * Bit(HyphenCheck(host))
        + 50 * CountOf(highRiskBrands, LAMBDA elem : BrandCheck(host, elem))
        + 50 * CountOf(phishingClusters, LAMBDA elem : ClusterCheck(lower, elem))
        + 25 * CountOf(phishingWords, LAMBDA elem : WordCheck(host, elem))
        + 25 * Bit(NumericCheck(host))
        + 40 * CountOf(deliveryWords, LAMBDA elem : DeliveryCheck(lower, elem))
        + 40 * Bit(EncodedCheck(lower))
        + 40 * Bit(HomoglyphCheck(url))
        + 45 * CountOf(numberMaps, LAMBDA elem : DigitCheck(host, elem))
        + 50 * CountOf(baseBrands, LAMBDA elem : SimilarityCheck(host, elem))
        + 20 * Bit(LongUrlCheck(url))
        + 25 * Bit(SubdomainCheck(host))

\* C1: the returned score is min(100, sum of the weights of the rules whose
\* predicate is true), so it lies in 0..100, and safePercent is exactly
\* 100 - score, so it lies in 0..100 and the two add up to 100.
C1_ScoreIsClampedSum ==
    Returned1 =>
        \E sum \in {WeightSum(inputUrl)} :
            /\ ret.score = (IF sum > 100 THEN 100 ELSE sum)
            /\ ret.score \in 0..100
            /\ ret.safePercent = 100 - ret.score
            /\ ret.safePercent + ret.score = 100
            /\ ret.safePercent \in 0..100

\* A call whose rule weights add up to more than 100: the clamp acts.
C1_Witness == Returned1 /\ risk > 100 /\ ret.score = 100 /\ ret.safePercent = 0

\* C2: the verdict is SAFE iff safePercent >= 80, SUSPICIOUS iff
\* 50 <= safePercent < 80, UNSAFE iff safePercent < 50.
C2_VerdictThresholds ==
    Returned1 =>
        /\ ret.verdict \in {"SAFE", "SUSPICIOUS", "UNSAFE"}
        /\ ret.verdict = "SAFE" <=> ret.safePercent >= 80
        /\ ret.verdict = "SUSPICIOUS" <=> (50 <= ret.safePercent /\ ret.safePercent < 80)
        /\ ret.verdict = "UNSAFE" <=> ret.safePercent < 50

\* The boundary: safePercent exactly 80, verdict SAFE.
C2_Witness == Returned1 /\ ret.safePercent = 80 /\ ret.verdict = "SAFE"

\* The other boundary: safePercent exactly 50, verdict SUSPICIOUS.
C2_Boundary50 == Returned1 /\ ret.safePercent = 50 /\ ret.verdict = "SUSPICIOUS"

Google == <<"g","o","o","g","l","e">>

Go0gleInput ==
    <<"h","t","t","p",":","/","/","g","o","0","g","l","e",".","c","o","m">>

\* C3: for "http://go0gle.com" the edit distance between the host and
\* "google" is 1, the similarity rule for "google" and the digit rule for
\* '0' fire, score = 95, safePercent = 5 and the verdict is UNSAFE.
C3_Go0gleScenario ==
    (Returned1 /\ inputUrl = Go0gleInput) =>
        /\ levenshtein(Host(inputUrl), Google) = 1
        /\ Fired("Domain resembles 'google' - highly suspicious.")
        /\ Fired("Typosquatting substitution: '0' for 'o'.")
        /\ ret.score = 95
        /\ ret.safePercent = 5
        /\ ret.verdict = "UNSAFE"

\* What the call returns for "http://go0gle.com".
C3_Go0gleActual ==
    (Returned1 /\ inputUrl = Go0gleInput) =>
        /\ levenshtein(Host(inputUrl), Google) = 5
        /\ findings = <<"Typosquatting substitution: '0' for 'o'.">>
        /\ ret.score = 45
        /\ ret.safePercent = 55
        /\ ret.verdict = "SUSPICIOUS"

\* The categories in catalogue declaration order.
CategoryOrder ==
    <<"tld", "hyphen", "brand", "cluster", "keyword", "numeric", "delivery",
      "encoded", "homoglyph", "digit", "similarity", "long", "subdomains">>

CategoryRank(cat) == CHOOSE r \in 1..Len(CategoryOrder) : CategoryOrder[r] = cat

\* C5: findings holds one message per rule whose predicate is true and none
\* for any other rule, in catalogue order: its k-th message is the message
\* of the k-th true rule, and the catalogue lists the categories in the
\* declared order.
C5_FindingsMatchRules ==
    Returned1 =>
        \E rules \in {Rules(Url(inputUrl), Lower(inputUrl), Host(inputUrl), PatternData)} :
        \E fired \in {{i \in 1..Len(rules) : rules[i].check}} :
            /\ Len(findings) = Cardinality(fired)
            /\ Len(findings) <= Len(rules)
            /\ ret.findings = findings
            /\ \A k \in 1..Len(findings) :
                 \E i \in fired :
                    /\ Cardinality({j \in fired : j <= i}) = k
                    /\ findings[k] = rules[i].msg
            /\ \A i \in 1..Len(rules) : rules[i].cat \in Range(CategoryOrder)
            /\ \A i \in 1..(Len(rules) - 1) :
                 CategoryRank(rules[i].cat) <= CategoryRank(rules[i + 1].cat)
            /\ \A r \in 1..Len(CategoryOrder) :
                 \E i \in 1..Len(rules) : rules[i].cat = CategoryOrder[r]

\* A call in which rules of three categories fire.
C5_Witness ==
    /\ Returned1
    /\ Fired("Phishing keyword cluster detected: login + verify")
    /\ Fired("Suspicious keyword detected: 'secure'.")
    /\ Fired("Typosquatting substitution: '1' for 'l'.")
    /\ Len(findings) = 5

LongMsg == "URL is unusually long."

\* Number of white-space characters at the start of s.
LeadingWs(s) ==
    Cardinality({i \in 1..Len(s) : \A j \in 1..i : s[j] \in WhiteSpace})

\* Number of white-space characters at the end of s.
TrailingWs(s) ==
    Cardinality({i \in 1..Len(s) : \A j \in i..Len(s) : s[j] \in WhiteSpace})

\* Length of s without its leading and trailing white space.
TrimmedLen(s) ==
    IF LeadingWs(s) = Len(s) THEN 0 ELSE Len(s) - LeadingWs(s) - TrailingWs(s)

\* C7 as stated: the Long URL rule fires iff the raw input string is longer
\* than 80 characters.
C7_LongIffRawLength == Returned1 => (Fired(LongMsg) <=> Len(inputUrl) > 80)

\* C7 as amended: the Long URL rule fires iff the input, with its leading
\* and trailing white space removed, is longer than 80 characters.
C7_LongIffTrimmedLength ==
    Returned1 => (Fired(LongMsg) <=> TrimmedLen(inputUrl) > 80)

\* A raw input longer than 80 characters whose trimmed form is not: the
\* rule does not fire.
C7_Witness ==
    Returned1 /\ Len(inputUrl) > 80 /\ TrimmedLen(inputUrl) = 80 /\ ~Fired(LongMsg)

\* s has none of the words of a list as a substring.
NoneOf(s, list) == \A i \in 1..Len(list) : ~includes(s, list[i])

\* s without its i-th character.
RemoveAt(s, i) == SubSeq(s, 1, i - 1) \o SubSeq(s, i + 1, Len(s))

\* t is s after at most one insertion, deletion or substitution.
Within1(s, t) ==
    \/ s = t
    \/ Len(s) = Len(t) /\ Cardinality({i \in 1..Len(s) : s[i] # t[i]}) = 1
    \/ Len(s) = Len(t) + 1 /\ \E i \in 1..Len(s) : RemoveAt(s, i) = t
    \/ Len(t) = Len(s) + 1 /\ \E i \in 1..Len(t) : RemoveAt(t, i) = s

\* The strings one edit away from s, with inserted and substituted
\* characters taken from cs.
Neighbours(s, cs) ==
    {s}
    \cup {RemoveAt(s, i) : i \in 1..Len(s)}
    \cup {[s EXCEPT ![i] = c] : i \in 1..Len(s), c \in cs}
    \cup {SubSeq(s, 1, i) \o <<c>> \o SubSeq(s, i + 1, Len(s)) :
             i \in 0..Len(s), c \in cs}

\* t is s after at most two insertions, deletions or substitutions.
Within2(s, t) ==
    /\ Len(s) - Len(t) \in -2..2
    /\ \E u \in Neighbours(s, Range(t)) : Within1(u, t)

\* The claim's "otherwise benign" input: no leading or trailing white space,
\* no '=', digit or hyphen, at most 3 dots, no Cyrillic or Greek character,
\* no listed TLD, brand, phishing word, cluster word or delivery word as a
\* substring (in any letter case), host not within edit distance 2 of a
\* base brand.
Benign(input) ==
    \E lower \in {toLowerCase(input)} :
        /\ LeadingWs(input) = 0 /\ TrailingWs(input) = 0
        /\ \A i \in 1..Len(input) :
              input[i] \notin {"=", "-"} \cup Digits \cup CyrillicGreek
        /\ CountIn(input, {"."}) <= 3
        /\ NoneOf(lower, autoUnsafeTLDs)
        /\ NoneOf(lower, highRiskBrands)
        /\ NoneOf(lower, baseBrands)
        /\ NoneOf(lower, phishingWords)
        /\ \A i \in 1..Len(phishingClusters) : NoneOf(lower, phishingClusters[i])
        /\ NoneOf(lower, deliveryWords)
        /\ \A i \in 1..Len(baseBrands) : ~Within2(Host(input), baseBrands[i])

\* C8: for an input of exactly 85 otherwise benign characters only the
\* Long URL rule fires: one finding, score 20, safePercent 80, SAFE.
C8_BenignLongOnlyLong ==
    (Returned1 /\ Len(inputUrl) = 85 /\ Benign(inputUrl)) =>
        /\ findings = <<LongMsg>>
        /\ ret.score = 20
        /\ ret.safePercent = 80
        /\ ret.verdict = "SAFE"

\* What holds instead: the claim's conclusion for the benign 85-character
\* inputs that have a character outside A-Z a-z 0-9 + /, and the Encoded
\* redirect rule firing as well for those that have none.
C8_EncodedFiresWithoutEquals ==
    (Returned1 /\ Len(inputUrl) = 85 /\ Benign(inputUrl)) =>
        IF AllIn(inputUrl, Base64Chars)
        THEN /\ findings = <<"Encoded redirect detected.", LongMsg>>
             /\ ret.score = 60
             /\ ret.verdict = "UNSAFE"
        ELSE /\ findings = <<LongMsg>>
             /\ ret.score = 20
             /\ ret.verdict = "SAFE"

SimilarityMsg(brand) == "Domain resembles '" \o Str(brand) \o "' - highly suspicious."

\* C9: the similarity rule for a base brand fires iff the host is within
\* two edits of the brand (the endsWith condition changes nothing); so it
\* fires only when the two lengths differ by at most 2, and never for a
\* host <name>.com whose <name> is as long as the brand.
C9_SimilarityIffWithin2 ==
    Returned1 =>
        \E host \in {Host(inputUrl)} :
        \A i \in 1..Len(baseBrands) :
            \E brand \in {baseBrands[i]} :
            \E fires \in {Fired(SimilarityMsg(brand))} :
                /\ fires <=> Within2(host, brand)
                /\ fires <=> levenshtein(host, brand) <= 2
                /\ fires => Len(host) - Len(brand) \in -2..2
                /\ (endsWith(host, DotCom) /\ Len(host) - 4 = Len(brand)) => ~fires
                /\ endsWith(host, brand \o DotCom) => ~Within2(host, brand)

\* The rule fires for a host that is one or two edits away from the brand.
C9_Witness ==
    /\ Returned1
    /\ Fired(SimilarityMsg(Google))
    /\ Host(inputUrl) # Google

\* A host that ends in <brand>.com: the rule does not fire.
C9_WitnessDotCom ==
    /\ Returned1
    /\ endsWith(Host(inputUrl), Google \o DotCom)
    /\ ~Fired(SimilarityMsg(Google))

-----------------------------------------------------------------------------
(* Properties of levenshtein                                                *)

\* The least number of single-character insertions, deletions and
\* substitutions that turn some string of `frontier` into t, plus k: the
\* strings reachable in one more edit are tried until t is among them.
\* Strings longer than maxLen are never needed on a shortest way.
RECURSIVE MinEdits(_, _, _, _)
MinEdits(frontier, t, k, maxLen) ==
    IF t \in frontier THEN k
    ELSE MinEdits({u \in UNION {Neighbours(s, LevChars) : s \in frontier} :
                       Len(u) <= maxLen},
                  t, k + 1, maxLen)

EditDistance(s, t) == MinEdits({s}, t, 0, Max2(Len(s), Len(t)))

\* C4: levenshtein(a, b) is the minimum number of unit-cost insertions,
\* deletions and substitutions turning a into b; it is 0 for equal strings,
\* the length of the other string when one is empty, and symmetric.
C4_LevenshteinIsEditDistance ==
    dist # NotComputed =>
        /\ dist = EditDistance(a, b)
        /\ a = b => dist = 0
        /\ a = <<>> => dist = Len(b)
        /\ b = <<>> => dist = Len(a)
        /\ dist = levenshtein(b, a)

\* Two different non-empty strings of different lengths whose distance
\* mixes a substitution with an insertion or deletion.
C4_Witness ==
    /\ dist # NotComputed
    /\ a # <<>> /\ b # <<>>
    /\ Len(a) # Len(b)
    /\ dist = 2
    /\ dist < Len(a)

-----------------------------------------------------------------------------
(* Properties of a sequence of analyzeURL calls                             *)

\* C6: a call returns what an earlier call with the same input returned,
\* whatever ran in between; it returns what a call with risk 0, no findings
\* and the pattern data as written returns; the pattern lists are as
\* written after every call.
C6_PureAcrossCalls ==
    /\ (seen # NoCall /\ seen.input = inputUrl) => seen.result = ret
    /\ calls > 0 => ret = analyzeURL(inputUrl)
    /\ calls > 0 => risk = WeightSum(inputUrl)
    /\ patterns = PatternData

\* The same input analysed again after a call with another input.
C6_Witness ==
    /\ calls = MaxCalls
    /\ seen # NoCall
    /\ seen.input = inputUrl
    /\ seen.result = ret
    /\ ret.score > 0

-----------------------------------------------------------------------------
(* Properties of the scan handler                                           *)

IntervalPending(k) == \E t \in timers : t.id = IntervalId(k)

ScanPending(k) == \E t \in timers : t.id = ScanId(k)

MeterPending(k) == \E t \in timers : t.id = MeterId(k)

Submitted == 1..MaxSubmits

\* While the animation of a submit runs, its own timeout is still to come.
IntervalHasOwnTimeout == \A k \in Submitted : IntervalPending(k) => ScanPending(k)

\* Once every 900 ms timeout has fired no animation is left, and the box
\* shows the analysis of the input captured by the latest submit.
SettledShowsLatest ==
    (submits > 0 /\ \A k \in Submitted : ~ScanPending(k)) =>
        /\ \A k \in Submitted : ~IntervalPending(k)
        /\ box = ResultBox(analyzeURL(closures[submits].input), submits)

\* With no timer left the bar of the latest submit is styled by its result.
QuietMeterStyled ==
    (submits > 0 /\ timers = {}) =>
        /\ meter[submits].width = box.result.safePercent
        /\ meter[submits].background = BarColour(box.result.safePercent)

\* An interval goes away only in the step in which the timeout of the same
\* submit runs.
ClearedByOwnTimeout ==
    \A k \in Submitted :
        (IntervalPending(k) /\ ~IntervalPending(k)') => (ScanPending(k) /\ ~ScanPending(k)')

\* C10: for any sequence of submits, overlapping or not, every animation
\* interval is eventually cleared, and by the timeout of the submit that
\* started it; once the timeouts have fired the box shows the analysis of
\* the input captured at the latest submit and no interval is left to
\* overwrite it.
C10_IntervalsClearedLatestShown ==
    /\ [](IntervalHasOwnTimeout /\ SettledShowsLatest /\ QuietMeterStyled)
    /\ [][ClearedByOwnTimeout]_vars
    /\ \A k \in Submitted : IntervalPending(k) ~> ~IntervalPending(k)

\* The second submit came while the first scan was pending: the first
\* timeout fired less than 50 ms ago (its meter timeout is pending), the
\* second was set at least 100 ms ago, and the second animation has already
\* written over the first result.
C10_Witness ==
    /\ submits = 2
    /\ MeterPending(1)
    /\ closures[1].result # NoResult
    /\ closures[1].input # closures[2].input
    /\ \E t \in timers : t.id = ScanId(2) /\ t.remaining <= ScanDelay - 2
    /\ IntervalPending(2) /\ ~IntervalPending(1)
    /\ box.kind = "scanning"

\* Both scans have finished after such an overlap, and the box shows the
\* second.
C10_WitnessSettled ==
    /\ submits = 2
    /\ timers = {}
    /\ closures[1].input # closures[2].input
    /\ closures[1].result # closures[2].result
    /\ box = ResultBox(closures[2].result, 2)

=============================================================================
